---- MODULE Spec2Model ----
(***************************************************************************)
(* Navigation state machine of nu_plugin_explore.                          *)
(*                                                                         *)
(* The session loop is `run` of src/src/app.rs (the Peeking-capable loop); *)
(* the navigation functions it calls are go_up_or_down_in_data,            *)
(* go_deeper_in_data and go_back_in_data of src/src/lib.rs.                *)
(* Value::follow_cell_path is the nu_protocol function the code calls to   *)
(* resolve a cell path; it is modelled by what it does on Lists, Records   *)
(* and scalar values.                                                      *)
(***************************************************************************)
EXTENDS Integers, Sequences, FiniteSets, TLC

\* ------------------------------------------------------------------ bounds

\* Largest number of nodes (containers and leaves) of an input value.
MaxSize == 4

\* Width in bits of the modelled usize (the arithmetic is the same at 64).
WordBits == 8

\* Column names given to the fields of a record, in insertion order.
KeyNames == <<"a", "b", "c", "d", "e", "f", "g", "h">>

\* ------------------------------------------------------------------ values

Leaf(v) == [kind |-> "leaf", val |-> v, cols |-> <<>>, vals |-> <<>>]

Nothing == [kind |-> "nothing", val |-> 0, cols |-> <<>>, vals |-> <<>>]

List(vs) == [kind |-> "list", val |-> 0, cols |-> <<>>, vals |-> vs]

Record(cs, vs) == [kind |-> "record", val |-> 0, cols |-> cs, vals |-> vs]

RECURSIVE TreesOfSize(_), Forests(_)

\* The children f of a container, each leaf given a payload of its own (ten
\* times its place), so that no two sibling leaves are equal.
Children(f) ==
    IF f = <<>> THEN <<>>
    ELSE [i \in 1..Len(f) |-> IF f[i].kind = "leaf" THEN Leaf(10 * i) ELSE f[i]]

\* Every value with exactly n nodes.
TreesOfSize(n) ==
    (IF n = 1 THEN {Leaf(10)} ELSE {})
    \cup {List(Children(f)) : f \in Forests(n - 1)}
    \cup {Record(SubSeq(KeyNames, 1, Len(f)), Children(f)) : f \in Forests(n - 1)}

\* Every sequence of values with n nodes in total.
Forests(n) ==
    IF n = 0 THEN {<<>>}
    ELSE UNION {{<<t>> \o f : t \in TreesOfSize(k), f \in Forests(n - k)} : k \in 1..n}

Values == UNION {TreesOfSize(n) : n \in 1..MaxSize}

\* ------------------------------------------------------------ path members

IntMember(v, opt) == [t |-> "Int", val |-> v, name |-> "", optional |-> opt]

StringMember(s, opt) == [t |-> "String", val |-> 0, name |-> s, optional |-> opt]

Pop(members) == IF members = <<>> THEN <<>> ELSE SubSeq(members, 1, Len(members) - 1)

\* ------------------------------------------------------- follow_cell_path

Ok(v) == [ok |-> TRUE, v |-> v]

Err == [ok |-> FALSE, v |-> Nothing]

\* cols.iter().position(|x| x == &val): 0 when absent, else the 1-based place.
Position(cols, name) ==
    IF \E i \in 1..Len(cols) : cols[i] = name
    THEN CHOOSE i \in 1..Len(cols) :
            cols[i] = name /\ \A j \in 1..(i - 1) : cols[j] # name
    ELSE 0

\* One String member applied to one row of a table (a List of Records).
FollowColumn(row, m) ==
    IF row.kind = "record"
    THEN IF Position(row.cols, m.name) # 0
         THEN Ok(row.vals[Position(row.cols, m.name)])
         ELSE IF m.optional THEN Ok(Nothing) ELSE Err
    ELSE IF m.optional /\ row.kind = "nothing" THEN Ok(Nothing) ELSE Err

RECURSIVE follow_cell_path_stopping(_, _)

\* A follow_cell_path that stops at an optional member and yields the
\* container reached so far.
follow_cell_path_stopping(current, members) ==
    IF members = <<>> THEN Ok(current)
    ELSE LET m == Head(members)
         IN IF m.optional THEN Ok(current)
            ELSE IF m.t = "Int" /\ current.kind = "list" /\ m.val < Len(current.vals)
                 THEN follow_cell_path_stopping(current.vals[m.val + 1], Tail(members))
            ELSE IF m.t = "String" /\ current.kind = "record"
                       /\ Position(current.cols, m.name) # 0
                 THEN follow_cell_path_stopping(
                          current.vals[Position(current.cols, m.name)], Tail(members))
            ELSE Err

RECURSIVE follow_cell_path(_, _)

\* Value::follow_cell_path(members, false): walks the members from `current`.
\* A member that finds no child yields Nothing at once when it is optional
\* and an error otherwise; a member of the wrong kind is an error.
follow_cell_path(current, members) ==
    IF members = <<>> THEN Ok(current)
    ELSE LET m == Head(members)
             rest == Tail(members)
         IN IF m.t = "Int"
            THEN CASE current.kind = "list" ->
                        IF m.val < Len(current.vals)
                        THEN follow_cell_path(current.vals[m.val + 1], rest)
                        ELSE IF m.optional THEN Ok(Nothing) ELSE Err
                   [] current.kind = "nothing" /\ m.optional -> Ok(Nothing)
                   [] OTHER -> Err
            ELSE CASE current.kind = "record" ->
                        IF Position(current.cols, m.name) # 0
                        THEN follow_cell_path(
                                 current.vals[Position(current.cols, m.name)], rest)
                        ELSE IF m.optional THEN Ok(Nothing) ELSE Err
                   [] current.kind = "list" ->
                        IF \A i \in 1..Len(current.vals) :
                               FollowColumn(current.vals[i], m).ok
                        THEN follow_cell_path(
                                 List([i \in 1..Len(current.vals) |->
                                          FollowColumn(current.vals[i], m).v]), rest)
                        ELSE Err
                   [] current.kind = "nothing" /\ m.optional -> Ok(Nothing)
                   [] OTHER -> Err

\* ------------------------------------------------------------- navigation

\* usize::MAX of the modelled word.
USIZE_MAX == 2 ^ WordBits - 1

\* a + b on usize: the wrapped sum, and whether the true sum left the word.
UsizeAdd(a, b) ==
    [val |-> (a + b) % (USIZE_MAX + 1), overflow |-> a + b > USIZE_MAX]

\* The usize added to a position or index: usize::MAX for Up, 1 for Down.
Delta(direction) == IF direction = "Up" THEN USIZE_MAX ELSE 1

\* (val + direction + len) % len, evaluated left to right on usize, for
\* len > 0. An addition that leaves the word aborts the process when the
\* build checks overflow and wraps when it does not.
Step(val, direction, len, checks) ==
    LET a == UsizeAdd(val, Delta(direction))
        b == UsizeAdd(a.val, len)
    IN [val |-> b.val % len,
        panic |-> IF checks /\ (a.overflow \/ b.overflow) THEN "overflow" ELSE "none"]

Panic(s, why) == [s EXCEPT !.panic = why]

\* MoveInList without the `vals.is_empty()` test: the remainder by a length
\* of zero aborts.
MoveInListNoEmptyTest(s, rest, current, vals, direction, checks) ==
    IF current = <<>> \/ current[1].t # "Int" THEN Panic([s EXCEPT !.cell_path = rest], "contract")
    ELSE IF vals = <<>> THEN Panic([s EXCEPT !.cell_path = rest], "arithmetic")
    ELSE LET c == current[1]
             st == Step(c.val, direction, Len(vals), checks)
         IN IF st.panic # "none"
            THEN Panic([s EXCEPT !.cell_path = rest], st.panic)
            ELSE [s EXCEPT !.cell_path = Append(rest, IntMember(st.val, c.optional))]

\* The List arm of go_up_or_down_in_data: `current` is the popped member
\* (<<>> when the path was empty), `rest` the members left.
MoveInList(s, rest, current, vals, direction, checks) ==
    IF current = <<>> \/ current[1].t # "Int" THEN Panic([s EXCEPT !.cell_path = rest], "contract")
    ELSE LET c == current[1]
             st == Step(c.val, direction, Len(vals), checks)
         IN IF vals = <<>>
            THEN [s EXCEPT !.cell_path = Append(rest, IntMember(c.val, c.optional))]
            ELSE IF st.panic # "none"
                 THEN Panic([s EXCEPT !.cell_path = rest], st.panic)
                 ELSE [s EXCEPT !.cell_path = Append(rest, IntMember(st.val, c.optional))]

\* MoveInRecord that builds the new member afresh, not optional.
MoveInRecordDroppingOptional(s, rest, current, cols, direction, checks) ==
    IF current = <<>> \/ current[1].t # "String" THEN Panic([s EXCEPT !.cell_path = rest], "contract")
    ELSE LET c == current[1]
             index == Position(cols, c.name)
             st == Step(index - 1, direction, Len(cols), checks)
         IN IF cols = <<>>
            THEN [s EXCEPT !.cell_path = Append(rest, StringMember("", FALSE))]
            ELSE IF index = 0
                 THEN Panic([s EXCEPT !.cell_path = rest], "contract")
                 ELSE IF st.panic # "none"
                      THEN Panic([s EXCEPT !.cell_path = rest], st.panic)
                      ELSE [s EXCEPT !.cell_path =
                               Append(rest, StringMember(cols[st.val + 1], FALSE))]

\* The Record arm of go_up_or_down_in_data.
MoveInRecord(s, rest, current, cols, direction, checks) ==
    IF current = <<>> \/ current[1].t # "String" THEN Panic([s EXCEPT !.cell_path = rest], "contract")
    ELSE LET c == current[1]
             index == Position(cols, c.name)
             st == Step(index - 1, direction, Len(cols), checks)
         IN IF cols = <<>>
            THEN [s EXCEPT !.cell_path = Append(rest, StringMember("", c.optional))]
            ELSE IF index = 0
                 THEN Panic([s EXCEPT !.cell_path = rest], "contract")
                 ELSE IF st.panic # "none"
                      THEN Panic([s EXCEPT !.cell_path = rest], st.panic)
                      ELSE [s EXCEPT !.cell_path =
                               Append(rest, StringMember(cols[st.val + 1], c.optional))]

\* go_up_or_down_in_data without the `bottom` test.
go_up_or_down_in_data_ignoring_bottom(s, input, direction, checks) ==
    LET n == Len(s.cell_path)
        current == IF n = 0 THEN <<>> ELSE <<s.cell_path[n]>>
        rest == Pop(s.cell_path)
        r == follow_cell_path(input, rest)
    IN CASE ~r.ok -> Panic([s EXCEPT !.cell_path = rest], "contract")
         [] r.ok /\ r.v.kind = "list" ->
               MoveInList(s, rest, current, r.v.vals, direction, checks)
         [] r.ok /\ r.v.kind = "record" ->
               MoveInRecord(s, rest, current, r.v.cols, direction, checks)
         [] OTHER -> [s EXCEPT !.cell_path = rest]

go_up_or_down_in_data(s, input, direction, checks) ==
    IF s.bottom THEN s
    ELSE LET n == Len(s.cell_path)
             current == IF n = 0 THEN <<>> ELSE <<s.cell_path[n]>>
             rest == Pop(s.cell_path)
             r == follow_cell_path(input, rest)
         IN CASE ~r.ok -> Panic([s EXCEPT !.cell_path = rest], "contract")
              [] r.ok /\ r.v.kind = "list" ->
                    MoveInList(s, rest, current, r.v.vals, direction, checks)
              [] r.ok /\ r.v.kind = "record" ->
                    MoveInRecord(s, rest, current, r.v.cols, direction, checks)
              [] OTHER -> [s EXCEPT !.cell_path = rest]

\* FirstMember that never marks the member optional.
FirstMemberNeverOptional(v) ==
    IF v.kind = "list" THEN IntMember(0, FALSE)
    ELSE StringMember(IF v.cols = <<>> THEN "" ELSE v.cols[1], FALSE)

\* The member pushed when a container is entered: its first child, marked
\* optional when the container is empty.
FirstMember(v) ==
    IF v.kind = "list" THEN IntMember(0, v.vals = <<>>)
    ELSE StringMember(IF v.cols = <<>> THEN "" ELSE v.cols[1], v.cols = <<>>)

\* go_deeper_in_data whose last arm flips `bottom` instead of setting it.
go_deeper_in_data_toggle(s, input) ==
    LET r == follow_cell_path(input, s.cell_path)
    IN CASE ~r.ok -> Panic(s, "contract")
         [] r.ok /\ r.v.kind \in {"list", "record"} ->
               [s EXCEPT !.cell_path = Append(s.cell_path, FirstMember(r.v))]
         [] OTHER -> [s EXCEPT !.bottom = ~s.bottom]

go_deeper_in_data(s, input) ==
    LET r == follow_cell_path(input, s.cell_path)
    IN CASE ~r.ok -> Panic(s, "contract")
         [] r.ok /\ r.v.kind \in {"list", "record"} ->
               [s EXCEPT !.cell_path = Append(s.cell_path, FirstMember(r.v))]
         [] OTHER -> [s EXCEPT !.bottom = TRUE]

\* go_back_in_data that also pops the only member of the path.
go_back_in_data_popping_root(s) ==
    [s EXCEPT !.cell_path = IF ~s.bottom /\ Len(s.cell_path) > 0
                            THEN Pop(s.cell_path) ELSE s.cell_path,
              !.bottom = FALSE]

\* go_back_in_data that pops without looking at `bottom`.
go_back_in_data_ignoring_bottom(s) ==
    [s EXCEPT !.cell_path = IF Len(s.cell_path) > 1 THEN Pop(s.cell_path) ELSE s.cell_path,
              !.bottom = FALSE]

go_back_in_data(s) ==
    [s EXCEPT !.cell_path = IF ~s.bottom /\ Len(s.cell_path) > 1
                            THEN Pop(s.cell_path) ELSE s.cell_path,
              !.bottom = FALSE]

\* ------------------------------------------------------------ session loop

\* The bindings of config.keybindings, in the order `run` tests them.
Bindings ==
    <<"quit", "insert", "normal", "down", "up", "right", "left", "peek",
      "peeking_quit", "peeking_all", "peeking_current", "peeking_under">>

BindingNames == {Bindings[i] : i \in 1..Len(Bindings)}

\* Key events: one key per binding, and one more that nothing is bound to.
Keys == 1..(Len(Bindings) + 1)

\* The key map that gives every binding a key of its own.
DistinctKeys == [b \in BindingNames |-> CHOOSE i \in 1..Len(Bindings) : Bindings[i] = b]

\* The key maps in which binding a shares the key of binding b.
SharedKeys == {[DistinctKeys EXCEPT ![a] = DistinctKeys[b]] : a, b \in BindingNames}

\* The State::default() alone: no member pushed for the input.
InitialStateNoPush(input) ==
    [cell_path |-> <<>>, bottom |-> FALSE, mode |-> "Normal", panic |-> "none"]

\* The state `run` builds before its loop.
InitialState(input) ==
    [cell_path |-> IF input.kind \in {"list", "record"}
                   THEN <<FirstMember(input)>> ELSE <<>>,
     bottom |-> FALSE,
     mode |-> "Normal",
     panic |-> "none"]

\* A guard that only keeps navigation out of Insert.
NavigationModeNotInsert(mode) == mode # "Insert"

\* The guard of the four navigation branches.
NavigationMode(mode) == mode = "Normal"

\* A quit test that is skipped while peeking.
IsQuitOutsidePeeking(key, cfg, mode) == key = cfg["quit"] /\ mode # "Peeking"

\* `key == config.keybindings.quit`, the first test of the loop.
IsQuit(key, cfg, mode) == key = cfg["quit"]

\* The chain with the insert branch of lib.rs, which sets Insert whatever
\* the mode is.
ChainUnguardedInsert(s, key, cfg, input, checks) ==
    LET to(st, f) == [state |-> st, brk |-> FALSE, fired |-> f]
        nav(b, st) == IF NavigationMode(s.mode) THEN to(st, {b}) ELSE to(s, {})
        mode(b, from, dest) ==
            IF s.mode = from THEN to([s EXCEPT !.mode = dest], {b}) ELSE to(s, {})
    IN IF IsQuit(key, cfg, s.mode) THEN [state |-> s, brk |-> TRUE, fired |-> {"quit"}]
       ELSE IF key = cfg["insert"] THEN to([s EXCEPT !.mode = "Insert"], {"insert"})
       ELSE IF key = cfg["normal"] THEN mode("normal", "Insert", "Normal")
       ELSE IF key = cfg["down"]
            THEN nav("down", go_up_or_down_in_data(s, input, "Down", checks))
       ELSE IF key = cfg["up"]
            THEN nav("up", go_up_or_down_in_data(s, input, "Up", checks))
       ELSE IF key = cfg["right"] THEN nav("right", go_deeper_in_data(s, input))
       ELSE IF key = cfg["left"] THEN nav("left", go_back_in_data(s))
       ELSE IF key = cfg["peek"] THEN mode("peek", "Normal", "Peeking")
       ELSE to(s, {})

\* The if / else-if chain of `run`: the first binding equal to the key decides.
\* brk: the loop was left by `break`; fired: the binding whose body ran.
Chain(s, key, cfg, input, checks) ==
    LET to(st, f) == [state |-> st, brk |-> FALSE, fired |-> f]
        nav(b, st) == IF NavigationMode(s.mode) THEN to(st, {b}) ELSE to(s, {})
        mode(b, from, dest) ==
            IF s.mode = from THEN to([s EXCEPT !.mode = dest], {b}) ELSE to(s, {})
    IN IF IsQuit(key, cfg, s.mode) THEN [state |-> s, brk |-> TRUE, fired |-> {"quit"}]
       ELSE IF key = cfg["insert"] THEN mode("insert", "Normal", "Insert")
       ELSE IF key = cfg["normal"] THEN mode("normal", "Insert", "Normal")
       ELSE IF key = cfg["down"]
            THEN nav("down", go_up_or_down_in_data(s, input, "Down", checks))
       ELSE IF key = cfg["up"]
            THEN nav("up", go_up_or_down_in_data(s, input, "Up", checks))
       ELSE IF key = cfg["right"] THEN nav("right", go_deeper_in_data(s, input))
       ELSE IF key = cfg["left"] THEN nav("left", go_back_in_data(s))
       ELSE IF key = cfg["peek"] THEN mode("peek", "Normal", "Peeking")
       ELSE to(s, {})

\* peeking.all: the whole input.
peek_all(input, members) == [members |-> members, r |-> Ok(input)]

\* peeking.current that keeps the last member of a one-member path, as
\* go_back_in_data does.
peek_current_keeping_root(input, members) ==
    LET p == IF Len(members) > 1 THEN Pop(members) ELSE members
    IN [members |-> p, r |-> follow_cell_path(input, p)]

\* peeking.current: the last member is popped, then the path is followed.
peek_current(input, members) ==
    [members |-> Pop(members), r |-> follow_cell_path(input, Pop(members))]

\* peeking.under that follows the path without its last member.
peek_under_parent(input, members) ==
    [members |-> members, r |-> follow_cell_path(input, Pop(members))]

\* peeking.under: the path is followed as it is.
peek_under(input, members) ==
    [members |-> members, r |-> follow_cell_path(input, members)]

\* The `if state.mode == Mode::Peeking` block that follows the chain.
PeekingBlock(s, key, cfg, input) ==
    LET stay(st, f) == [state |-> st, exit |-> "none", result |-> Nothing, fired |-> f]
        leave(b, p) ==
            [state |-> [s EXCEPT !.cell_path = p.members],
             exit |-> IF p.r.ok THEN b ELSE "error",
             result |-> p.r.v,
             fired |-> {b}]
    IN IF s.mode # "Peeking" THEN stay(s, {})
       ELSE IF key = cfg["peeking_quit"]
            THEN stay([s EXCEPT !.mode = "Normal"], {"peeking_quit"})
       ELSE IF key = cfg["peeking_all"]
            THEN leave("peeking_all", peek_all(input, s.cell_path))
       ELSE IF key = cfg["peeking_current"]
            THEN leave("peeking_current", peek_current(input, s.cell_path))
       ELSE IF key = cfg["peeking_under"]
            THEN leave("peeking_under", peek_under(input, s.cell_path))
       ELSE stay(s, {})

\* One iteration of the loop of `run` on one key.
Iteration(s, key, cfg, input, checks) ==
    LET c == Chain(s, key, cfg, input, checks)
        p == PeekingBlock(c.state, key, cfg, input)
    IN IF c.brk
       THEN [state |-> c.state, exit |-> "quit", result |-> Nothing, fired |-> c.fired]
       ELSE IF c.state.panic # "none"
            THEN [state |-> c.state, exit |-> "none", result |-> Nothing, fired |-> c.fired]
            ELSE [p EXCEPT !.fired = c.fired \cup p.fired]

\* One iteration of the loop of the `run` of lib.rs, the loop `explore`
\* calls: no Peeking, and insert and normal set the mode whatever it is.
LegacyIteration(s, key, cfg, input, checks) ==
    LET to(st) == [state |-> st, exit |-> "none", result |-> Nothing]
        nav(st) == IF s.mode = "Normal" THEN to(st) ELSE to(s)
    IN IF key = cfg["quit"] THEN [state |-> s, exit |-> "quit", result |-> Nothing]
       ELSE IF key = cfg["insert"] THEN to([s EXCEPT !.mode = "Insert"])
       ELSE IF key = cfg["normal"] THEN to([s EXCEPT !.mode = "Normal"])
       ELSE IF key = cfg["down"] THEN nav(go_up_or_down_in_data(s, input, "Down", checks))
       ELSE IF key = cfg["up"] THEN nav(go_up_or_down_in_data(s, input, "Up", checks))
       ELSE IF key = cfg["right"] THEN nav(go_deeper_in_data(s, input))
       ELSE IF key = cfg["left"] THEN nav(go_back_in_data(s))
       ELSE to(s)

VARIABLES
    input,   \* the value explored, borrowed by `run`
    config,  \* the key map
    state,   \* State: cell_path, bottom, mode (and the abort, if any)
    exit,    \* how `run` returned: "none" while it loops
    result,  \* the Value `run` returned
    terminal \* the terminal set up for the session: "acquired" or "released"

vars == <<input, config, state, exit, result, terminal>>

Running == exit = "none" /\ state.panic = "none"

InitWith(inputs, configs) ==
    /\ input \in inputs
    /\ config \in configs
    /\ state = InitialState(input)
    /\ exit = "none"
    /\ result = Nothing
    /\ terminal = "acquired"

\* Every input value, under the key map with distinct keys.
Init == InitWith(Values, {DistinctKeys})

\* Small input values, under every key map in which two bindings share a key.
InitKeys == InitWith(UNION {TreesOfSize(n) : n \in 1..2}, SharedKeys)

\* One iteration of the loop on key k. Whether an addition that leaves the
\* word aborts or wraps is the build's choice (checks).
ReadKey(k) ==
    /\ Running
    /\ \E checks \in BOOLEAN :
          LET it == Iteration(state, k, config, input, checks)
          IN /\ state' = it.state
             /\ exit' = it.exit
             /\ result' = it.result
    /\ UNCHANGED <<input, config, terminal>>

\* terminal.draw or the key read fails: `?` returns the error from the loop.
IoFailure ==
    /\ Running
    /\ exit' = "io_error"
    /\ UNCHANGED <<input, config, state, result, terminal>>

Next ==
    \/ \E k \in Keys : ReadKey(k)
    \/ IoFailure

Spec == Init /\ [][Next]_vars

SpecKeys == InitKeys /\ [][Next]_vars

\* ------------------------------------------------- explore and its own loop

LegacyReadKey(k) ==
    /\ Running
    /\ \E checks \in BOOLEAN :
          LET it == LegacyIteration(state, k, config, input, checks)
          IN /\ state' = it.state
             /\ exit' = it.exit
             /\ result' = it.result
    /\ UNCHANGED <<input, config, terminal>>

\* What `explore` does once `run` has returned: `.unwrap()` aborts on an
\* error, and only after it is the terminal restored.
ExploreReturn ==
    /\ exit # "none"
    /\ state.panic = "none"
    /\ terminal = "acquired"
    /\ IF exit = "io_error"
       THEN state' = Panic(state, "unwrap") /\ UNCHANGED terminal
       ELSE terminal' = "released" /\ UNCHANGED state
    /\ UNCHANGED <<input, config, exit, result>>

NextExplore ==
    \/ \E k \in Keys : LegacyReadKey(k)
    \/ IoFailure
    \/ ExploreReturn

\* `explore`: the terminal is set up, the loop of lib.rs runs, the terminal
\* is restored.
SpecExplore == Init /\ [][NextExplore]_vars

\* ------------------------------------------------------------- properties

Containers == {"list", "record"}

\* The last member of a non-empty path.
Last(members) == members[Len(members)]

\* Number of children of a container.
Size(v) == IF v.kind = "list" THEN Len(v.vals) ELSE Len(v.cols)

RECURSIVE WellFormed(_, _)

\* The path steps through v: each member is of the kind of the container it
\* is applied to, and addresses a child of it unless it is optional.
WellFormed(v, members) ==
    IF members = <<>> THEN TRUE
    ELSE LET m == Head(members)
         IN /\ v.kind \in Containers
            /\ m.t = (IF v.kind = "list" THEN "Int" ELSE "String")
            /\ \/ m.optional
               \/ /\ m.t = "Int"
                  /\ m.val < Len(v.vals)
                  /\ WellFormed(v.vals[m.val + 1], Tail(members))
               \/ /\ m.t = "String"
                  /\ \E i \in 1..Len(v.cols) :
                        v.cols[i] = m.name /\ WellFormed(v.vals[i], Tail(members))

\* C1: every reachable cell path is well formed against the input (member
\* kinds match the containers, positions and names address existing children
\* unless the member is optional), no navigation function has reached one of
\* its panics on the shape of the path, and no peek has failed to follow it.
C1_PathWellFormed ==
    /\ WellFormed(input, state.cell_path)
    /\ state.panic # "contract"
    /\ exit # "error"
    /\ Running =>
          \A k \in Keys, checks \in BOOLEAN :
             Iteration(state, k, config, input, checks).state.panic # "contract"

\* C1 witness: three levels deep, on the placeholder of an empty container.
C1_Witness ==
    /\ Running
    /\ Len(state.cell_path) = 3
    /\ Last(state.cell_path).optional
    /\ state.cell_path[1].t # state.cell_path[2].t

RECURSIVE Moves(_, _, _, _, _)

\* go_up_or_down_in_data applied n times (an abort ends the process).
Moves(s, v, direction, n, checks) ==
    IF n = 0 \/ s.panic # "none" THEN s
    ELSE Moves(go_up_or_down_in_data(s, v, direction, checks), v, direction, n - 1, checks)

\* The container the last member of the path addresses a child of.
Parent(v, members) == follow_cell_path(v, Pop(members)).v

\* The last member selects an existing child and `bottom` is not set.
OnChild(s) ==
    /\ s.panic = "none"
    /\ ~s.bottom
    /\ s.cell_path # <<>>
    /\ ~Last(s.cell_path).optional

\* C2: from a state whose last member selects a child of a container of size
\* n, n moves Down bring the cell path back to what it was, and so do n moves
\* Up, whatever the build.
C2_WraparoundClosure ==
    (Running /\ OnChild(state)) =>
        \A direction \in {"Down", "Up"}, checks \in BOOLEAN :
           LET n == Size(Parent(input, state.cell_path))
               after == Moves(state, input, direction, n, checks)
           IN after.panic = "none" /\ after.cell_path = state.cell_path

\* C3: go_back_in_data after go_deeper_in_data leaves the cell path as it
\* was, member for member, whether the focus was a container or a leaf.
C3_DescendAscendInverse ==
    Running =>
        LET down == go_deeper_in_data(state, input)
        IN /\ down.panic = "none"
           /\ go_back_in_data(down).cell_path = state.cell_path
           /\ ~go_back_in_data(down).bottom

\* C3 witness: the focus is a leaf below the first level and the descent
\* into it has set `bottom`.
C3_Witness ==
    /\ Running
    /\ state.bottom
    /\ Len(state.cell_path) >= 2
    /\ follow_cell_path(input, state.cell_path).v.kind = "leaf"

\* How many go_deeper_in_data in a row C4 looks at.
MaxDescends == 3

RECURSIVE Descends(_, _, _)

Descends(s, v, n) == IF n = 0 THEN s ELSE Descends(go_deeper_in_data(s, v), v, n - 1)

\* C4: on a leaf, any number of go_deeper_in_data in a row leaves the cell
\* path as it was and ends with `bottom` set; with `bottom` already set
\* go_deeper_in_data changes nothing.
C4_LeafIdempotence ==
    (Running /\ follow_cell_path(input, state.cell_path).v.kind = "leaf") =>
        /\ \A n \in 1..MaxDescends :
              Descends(state, input, n) = [state EXCEPT !.bottom = TRUE]
        /\ state.bottom => go_deeper_in_data(state, input) = state

\* C4 witness: `bottom` is set on a leaf.
C4_Witness ==
    /\ Running
    /\ state.bottom
    /\ state.cell_path # <<>>
    /\ follow_cell_path(input, state.cell_path).v.kind = "leaf"

\* How many operations in a row C5 looks at.
MaxOps == 3

EmptyOps == {"Down", "Up", "Deeper"}

RECURSIVE ApplyOps(_, _, _, _)

\* The operations of ops, in order: moves and descents.
ApplyOps(s, v, ops, checks) ==
    IF ops = <<>> \/ s.panic # "none" THEN s
    ELSE ApplyOps(IF Head(ops) = "Deeper" THEN go_deeper_in_data(s, v)
                  ELSE go_up_or_down_in_data(s, v, Head(ops), checks),
                  v, Tail(ops), checks)

OpSeqs == UNION {[1..n -> EmptyOps] : n \in 1..MaxOps}

\* C5: when the last member is the optional placeholder of an empty List or
\* Record, no sequence of moves and descents aborts, and the last member
\* stays at position 0 (List) or at the empty name (Record).
C5_EmptyContainerSafety ==
    (Running /\ state.cell_path # <<>> /\ Last(state.cell_path).optional) =>
        /\ Size(Parent(input, state.cell_path)) = 0
        /\ \A ops \in OpSeqs, checks \in BOOLEAN :
              LET after == ApplyOps(state, input, ops, checks)
              IN /\ after.panic = "none"
                 /\ after.cell_path = state.cell_path
                 /\ Last(after.cell_path).val = 0
                 /\ Last(after.cell_path).name = ""

\* C5 witness: the placeholder of an empty container below the first level,
\* after a descent on it.
C5_Witness ==
    /\ Running
    /\ Len(state.cell_path) >= 2
    /\ Last(state.cell_path).optional
    /\ state.bottom

RECURSIVE Resolve(_, _)

\* The value a path addresses, by indexing and keying from v; an optional
\* member addresses no child and the walk stops at the container reached.
Resolve(v, members) ==
    IF members = <<>> THEN v
    ELSE LET m == Head(members)
         IN IF m.optional \/ v.kind \notin Containers THEN v
            ELSE IF m.t = "Int"
                 THEN IF m.val < Len(v.vals)
                      THEN Resolve(v.vals[m.val + 1], Tail(members)) ELSE Nothing
                 ELSE IF Position(v.cols, m.name) # 0
                      THEN Resolve(v.vals[Position(v.cols, m.name)], Tail(members))
                      ELSE Nothing

\* The last member is the placeholder of an empty container.
OnPlaceholder(members) == members # <<>> /\ Last(members).optional

\* The outcome of one iteration on key k in the current state.
After(k, checks) == Iteration(state, k, config, input, checks)

C7_PeekCurrent ==
    (Running /\ state.mode = "Peeking") =>
        \A checks \in BOOLEAN :
           LET cur == After(config["peeking_current"], checks)
           IN /\ cur.exit = "peeking_current"
              /\ cur.state.cell_path = Pop(state.cell_path)
              /\ cur.result = Resolve(input, Pop(state.cell_path))
              /\ state.cell_path # <<>> =>
                    /\ cur.result.kind \in Containers
                    /\ cur.result = Parent(input, state.cell_path)
              /\ Len(state.cell_path) = 1 => cur.result = input

\* C7 witness: peek-current has returned the input from a one-member path
\* with `bottom` set.
C7_Witness ==
    /\ exit = "peeking_current"
    /\ state.bottom
    /\ state.cell_path = <<>>
    /\ input.kind \in Containers
    /\ result = input

NavigationBindings == {"down", "up", "right", "left"}

\* C8: in Insert and in Peeking a key bound to a navigation binding leaves
\* the cell path and `bottom` as they were and runs no navigation function.
C8_ModeGating ==
    (Running /\ state.mode \in {"Insert", "Peeking"}) =>
        \A b \in NavigationBindings, checks \in BOOLEAN :
           /\ After(config[b], checks).state.cell_path = state.cell_path
           /\ After(config[b], checks).state.bottom = state.bottom
           /\ After(config[b], checks).fired = {}

\* C8 witness: peeking, on a child of a container that has a sibling.
C8_Witness ==
    /\ Running
    /\ state.mode = "Peeking"
    /\ OnChild(state)
    /\ Size(Parent(input, state.cell_path)) >= 2

\* The place of a binding in the order quit, mode entry and exit,
\* navigation, Peeking sub-actions.
Class(b) ==
    CASE b = "quit" -> 1
      [] b \in {"insert", "normal", "peek"} -> 2
      [] b \in NavigationBindings -> 3
      [] OTHER -> 4

BoundTo(k, cfg) == {b \in BindingNames : cfg[b] = k}

\* C9: one key event runs at most one binding, and a binding it runs is of
\* the earliest class among the bindings the key map gives that key.
C9_KeyPrecedence ==
    Running =>
        \A k \in Keys, checks \in BOOLEAN :
           /\ Cardinality(After(k, checks).fired) <= 1
           /\ \A f \in After(k, checks).fired :
                 \A b \in BoundTo(k, config) : Class(f) <= Class(b)

\* C10: in every mode and under every key map, the key bound to quit ends
\* the session with Nothing and runs no other binding.
C10_QuitUnconditional ==
    Running =>
        \A checks \in BOOLEAN :
           /\ After(config["quit"], checks).exit = "quit"
           /\ After(config["quit"], checks).result = Nothing
           /\ After(config["quit"], checks).fired = {"quit"}
           /\ After(config["quit"], checks).state = state

\* C10 witness: quit has ended a Peeking session on a key that is also bound
\* to peek-all.
C10_Witness ==
    /\ exit = "quit"
    /\ result = Nothing
    /\ state.mode = "Peeking"
    /\ config["quit"] = config["peeking_all"]

\* The process has aborted, or `explore` has returned (it returns right
\* after restoring the terminal).
SessionEnded == state.panic # "none" \/ terminal = "released"

\* C11: whenever the session has ended, by quit, by an I/O failure of draw or
\* of the key read, or by an abort inside a navigation function, the
\* terminal has been released.
C11_TerminalReleased == SessionEnded => terminal = "released"

\* C12 as stated: once a key has been read, the cell path of a running
\* session has at least one member.
C12_PathNeverEmpty_AsStated ==
    (Running /\ state # InitialState(input)) => Len(state.cell_path) >= 1

\* C12 amended: while the session runs, the cell path of a List or Record
\* input has at least one member, go_back_in_data leaves a one-member path
\* as it is, and no key empties the path; the cell path of any other input
\* is empty throughout.
C12_PathNeverEmpty ==
    Running =>
        IF input.kind \in Containers
        THEN /\ Len(state.cell_path) >= 1
             /\ Len(state.cell_path) = 1 =>
                   go_back_in_data(state).cell_path = state.cell_path
             /\ \A k \in Keys, checks \in BOOLEAN :
                   (After(k, checks).exit = "none" /\ After(k, checks).state.panic = "none")
                      => Len(After(k, checks).state.cell_path) >= 1
        ELSE state.cell_path = <<>>

\* C12 witness: back on the one-member path, on the second child of the
\* input, which is itself a container.
C12_Witness ==
    /\ Running
    /\ Len(state.cell_path) = 1
    /\ ~Last(state.cell_path).optional
    /\ Position(input.cols, Last(state.cell_path).name) = 2
    /\ Resolve(input, state.cell_path).kind \in Containers

\* The mode a binding leads to from a mode: the four edges of the table, and
\* no change anywhere else.
ModeTable(mode, b) ==
    CASE mode = "Normal" /\ b = "insert" -> "Insert"
      [] mode = "Insert" /\ b = "normal" -> "Normal"
      [] mode = "Normal" /\ b = "peek" -> "Peeking"
      [] mode = "Peeking" /\ b = "peeking_quit" -> "Normal"
      [] OTHER -> mode

LegacyBindings == {"quit", "insert", "normal", "down", "up", "right", "left"}

\* C13: the mode starts as Normal, and a key moves it only along the edges
\* Normal to Insert (insert), Insert to Normal (normal), Normal to Peeking
\* (peek) and Peeking to Normal (peeking quit): every other binding, and an
\* unbound key, leaves the mode as it is, in the loop of app.rs and, for
\* Normal and Insert, in the loop of lib.rs.
C13_ModeTransitions ==
    /\ state.mode = "Normal"
    /\ [](Running =>
            \A checks \in BOOLEAN :
               /\ \A b \in BindingNames :
                     After(config[b], checks).state.mode = ModeTable(state.mode, b)
               /\ \A k \in Keys :
                     BoundTo(k, config) = {} => After(k, checks).state.mode = state.mode
               /\ state.mode \in {"Normal", "Insert"} =>
                     \A b \in LegacyBindings :
                        LegacyIteration(state, config[b], config, input, checks).state.mode
                           = ModeTable(state.mode, b))

\* C13 witness: Peeking, entered from Normal below the first level.
C13_Witness ==
    /\ Running
    /\ state.mode = "Peeking"
    /\ state.bottom
    /\ Len(state.cell_path) = 2

\* The place (from 0) of the child the last member selects in its container.
Place(v, members) ==
    IF Last(members).t = "Int" THEN Last(members).val
    ELSE Position(Parent(v, members).cols, Last(members).name) - 1

\* The path with its last member moved to place p of the container c.
Moved(members, c, p) ==
    Append(Pop(members),
           IF Last(members).t = "Int" THEN IntMember(p, Last(members).optional)
           ELSE StringMember(c.cols[p + 1], Last(members).optional))

\* C14: on a child at place p of a container of n >= 1 children, a move Down
\* selects the child at place (p + 1) mod n and a move Up the child at place
\* (p + n - 1) mod n, in container order, whatever the build.
C14_CyclicNeighbour ==
    (Running /\ OnChild(state)) =>
        \A checks \in BOOLEAN :
           LET c == Parent(input, state.cell_path)
               n == Size(c)
               p == Place(input, state.cell_path)
               down == go_up_or_down_in_data(state, input, "Down", checks)
               up == go_up_or_down_in_data(state, input, "Up", checks)
           IN /\ down.panic = "none"
              /\ down.cell_path = Moved(state.cell_path, c, (p + 1) % n)
              /\ up.panic = "none"
              /\ up.cell_path = Moved(state.cell_path, c, (p + n - 1) % n)

\* C18: with `bottom` not set, a move Down followed by a move Up, and a move
\* Up followed by a move Down, leave the cell path as it was, for containers
\* of every size, whatever the build.
C18_MoveReversible ==
    (Running /\ ~state.bottom) =>
        \A checks \in BOOLEAN :
           LET du == go_up_or_down_in_data(
                         go_up_or_down_in_data(state, input, "Down", checks),
                         input, "Up", checks)
               ud == go_up_or_down_in_data(
                         go_up_or_down_in_data(state, input, "Up", checks),
                         input, "Down", checks)
           IN /\ du.panic = "none" /\ du.cell_path = state.cell_path
              /\ ud.panic = "none" /\ ud.cell_path = state.cell_path

\* C19: on a child at place p of a container of n >= 1 children, both sums
\* of p + delta + n, taken left to right with the delta the code adds, stay
\* within the usize, in both directions, so that no move aborts on overflow.
C19_NoOverflow ==
    (Running /\ OnChild(state)) =>
        \A direction \in {"Down", "Up"} :
           LET n == Size(Parent(input, state.cell_path))
               p == Place(input, state.cell_path)
               a == UsizeAdd(p, Delta(direction))
               b == UsizeAdd(a.val, n)
           IN /\ ~a.overflow
              /\ ~b.overflow
              /\ go_up_or_down_in_data(state, input, direction, TRUE).panic = "none"

\* C15: a move that returns changes neither the length of the cell path, nor
\* any member but the last, nor the kind or the optional flag of the last
\* member, nor `bottom`, nor the mode; with `bottom` set it changes nothing.
C15_MoveFrame ==
    Running =>
        \A direction \in {"Down", "Up"}, checks \in BOOLEAN :
           LET after == go_up_or_down_in_data(state, input, direction, checks)
           IN /\ state.bottom => after = state
              /\ after.panic = "none" =>
                    /\ Len(after.cell_path) = Len(state.cell_path)
                    /\ Pop(after.cell_path) = Pop(state.cell_path)
                    /\ after.bottom = state.bottom
                    /\ after.mode = state.mode
                    /\ state.cell_path # <<>> =>
                          /\ Last(after.cell_path).t = Last(state.cell_path).t
                          /\ Last(after.cell_path).optional
                                = Last(state.cell_path).optional

\* C15 witness: moved to the second field of a record below the first level.
C15_Witness ==
    /\ Running
    /\ OnChild(state)
    /\ Len(state.cell_path) = 2
    /\ Last(state.cell_path).t = "String"
    /\ Place(input, state.cell_path) = 1

C17_Initialization ==
    /\ state = [cell_path |->
                   CASE input.kind = "list" ->
                          <<[t |-> "Int", val |-> 0, name |-> "",
                             optional |-> Len(input.vals) = 0]>>
                     [] input.kind = "record" ->
                          <<[t |-> "String", val |-> 0,
                             name |-> IF Len(input.cols) = 0 THEN "" ELSE input.cols[1],
                             optional |-> Len(input.cols) = 0]>>
                     [] OTHER -> <<>>,
                bottom |-> FALSE, mode |-> "Normal", panic |-> "none"]
    /\ exit = "none"
    /\ []((Running /\ input.kind \notin Containers) =>
            /\ state.cell_path = <<>>
            /\ go_back_in_data(state).cell_path = <<>>
            /\ \A direction \in {"Down", "Up"}, checks \in BOOLEAN :
                  LET after == go_up_or_down_in_data(state, input, direction, checks)
                  IN after.panic = "none" /\ after.cell_path = <<>>
            /\ peek_under(input, state.cell_path).r = Ok(input))

\* C17 witness: a running session on an input that is no container, after
\* a descent.
C17_Witness ==
    /\ Running
    /\ input.kind \notin Containers
    /\ state.bottom

RECURSIVE Depth(_)

\* How deep containers nest in v: 0 for a leaf, 1 for a container of leaves
\* or of nothing.
Depth(v) ==
    IF v.kind \notin Containers THEN 0
    ELSE LET ds == {Depth(v.vals[i]) : i \in 1..Len(v.vals)} \cup {0}
         IN 1 + CHOOSE d \in ds : \A e \in ds : e <= d

\* The value the first n members of the path lead to.
Reached(v, members, n) == Resolve(v, SubSeq(members, 1, n))

\* C20: the cell path is never longer than containers nest in the input,
\* each member steps into a container (so a path into nesting level d has at
\* most d members), and on the placeholder of an empty container further
\* descents do not lengthen the path.
C20_BoundedDepth ==
    /\ Len(state.cell_path) <= Depth(input)
    /\ \A n \in 1..Len(state.cell_path) :
          /\ Reached(input, state.cell_path, n - 1).kind \in Containers
          /\ n - 1 + Depth(Reached(input, state.cell_path, n - 1)) <= Depth(input)
          /\ n > 1 => ~state.cell_path[n - 1].optional
    /\ (Running /\ OnPlaceholder(state.cell_path)) =>
          \A n \in 1..MaxDescends :
             Descends(state, input, n).cell_path = state.cell_path

\* C20 witness: on the placeholder of an empty container at the deepest
\* level of the input, after a further descent.
C20_Witness ==
    /\ Running
    /\ Len(state.cell_path) = 3
    /\ Len(state.cell_path) = Depth(input)
    /\ OnPlaceholder(state.cell_path)
    /\ state.bottom

====
